---- MODULE Spec2Model ----
(***************************************************************************)
(* Model of scripts/utils/zenodo_upload.py: one run of main() driving the  *)
(* Zenodo REST API (verify token, create deposition, attach metadata,      *)
(* upload each file, re-fetch, publish), and of calculate_checksums.       *)
(*                                                                         *)
(* The remote service and the HTTP transport are the environment: every    *)
(* request is answered by a nondeterministically chosen response (an HTTP  *)
(* status, or no response at all when the transport fails).  A response    *)
(* that raise_for_status lets through carries the body the API documents.  *)
(***************************************************************************)
EXTENDS Integers, Sequences, FiniteSets, TLC

\* ------------------------------------------------------------------ bounds
\* Longest command line (number of positional file arguments).
MaxFiles == 2
\* Longest file content, in bytes, fed to calculate_checksums.
MaxLen == 4
\* Stand-in for the read size 8192 of calculate_checksums, scaled so that
\* contents of 0..MaxLen bytes span empty, partial, exact and several blocks.
BlockSize == 2

\* ------------------------------------------------------------ environment
\* Paths a command line may name; the last one is not an existing regular file.
Paths == {"a.dat", "b.dat", "missing"}

\* Path(filepath).resolve().is_file()
is_file(path) == path \in {"a.dat", "b.dat"}

Bytes == {0, 1}

\* The bytes of the files on disk.
Content(path) == IF path = "a.dat" THEN <<1, 0, 1>> ELSE <<>>

TokenVars == {"ZENODO_TOKEN", "ZENODO_SANDBOX_TOKEN"}

\* What the transport hands back: an HTTP response with a status, or nothing
\* (requests raises ConnectionError, a RequestException without a response).
Responses ==
    [kind : {"http"}, status : {200, 201, 400, 403, 500}]
        \cup [kind : {"conn"}, status : {0}]

\* Ids the service may assign to a new deposition.
DepIds == {1, 2}

\* The record the service returns from a successful publish of deposition id.
Record(id) ==
    IF id = 1 THEN [doi |-> "10.5281/zenodo.1", html |-> "https://zenodo.org/records/1"]
              ELSE [doi |-> "10.5281/zenodo.2", html |-> "https://zenodo.org/records/2"]

NoRecord == [doi |-> "", html |-> ""]

BoundSeq(S, n) == UNION {[1..k -> S] : k \in 0..n}

\* -------------------------------------------------------------------- state
VARIABLES
    files,            \* args.files: the positional arguments
    has_required,     \* --title, --description and --creators were all given
    sandbox,          \* args.sandbox
    env,              \* os.environ restricted to the two token variables ("" = unset or empty)
    pc,               \* position of main()
    i,                \* index of the for loop in progress (validation, upload)
    files_to_upload,  \* main's list of validated paths
    uploader,         \* the constructed ZenodoUploader, or NoUploader
    deposition_id,    \* main's deposition_id (0 = not bound)
    checksums,        \* the digest pairs printed so far, one per file
    calls,            \* history: every request issued, in order
    lastStatus,       \* status of the latest response (0 = none)
    svc,              \* the deposition on the remote service
    stdout,           \* lines printed to standard output
    stderr,           \* lines printed to standard error
    exitCode,         \* process exit status (-1 = still running)
    handled,          \* where the run was ended
    result,           \* the record publish returned
    \* calculate_checksums, run step by step (specification SpecSum)
    cpc, f_content, f_pos, md5, sha256, fed, chunks, digests

inputs == <<files, has_required, sandbox, env>>
sumvars == <<cpc, f_content, f_pos, md5, sha256, fed, chunks, digests>>
runvars == <<pc, i, files_to_upload, uploader, deposition_id, checksums, calls,
             lastStatus, svc, stdout, stderr, exitCode, handled, result>>
vars == <<inputs, runvars, sumvars>>

NoUploader == [token |-> "", base |-> "", api |-> ""]
NoDeposit == [id |-> 0, metadata |-> FALSE, files |-> <<>>, published |-> FALSE]

\* ------------------------------------------------------ calculate_checksums
\* hashlib is modelled by two different iterated compression functions over
\* the bytes absorbed: update(a); update(b) equals update(a + b), as hashlib
\* documents, and the digest depends on every byte and on their order.
RECURSIVE md5_update(_, _)
md5_update(h, data) ==
    IF data = <<>> THEN h
    ELSE md5_update((h * 3 + Head(data) + 1) % 251, Tail(data))

RECURSIVE sha256_update(_, _)
sha256_update(h, data) ==
    IF data = <<>> THEN h
    ELSE sha256_update((h * 7 + Head(data) + 2) % 4093, Tail(data))

\* hashlib.md5() / hashlib.sha256(): the initial states.
md5_new == 11
sha256_new == 29

HexDigit(d) == <<"0", "1", "2", "3", "4", "5", "6", "7",
                 "8", "9", "a", "b", "c", "d", "e", "f">>[d + 1]

\* hexdigest(): the state as width lowercase hexadecimal digits.
RECURSIVE hexdigest(_, _)
hexdigest(h, width) ==
    IF width = 0 THEN <<>>
    ELSE Append(hexdigest(h \div 16, width - 1), HexDigit(h % 16))

\* f.read(size) on a regular file opened "rb", at offset pos.
read(content, pos, size) ==
    SubSeq(content, pos + 1, IF pos + size < Len(content) THEN pos + size ELSE Len(content))

\* The loop drops the last, partial block: while len(chunk) == 8192.
loop_continues_full_blocks_only(chunk) == Len(chunk) = BlockSize

\* while chunk := f.read(8192): the loop goes on while the chunk is non-empty.
loop_continues(chunk) == chunk # <<>>

RECURSIVE checksum_loop(_, _, _, _)
checksum_loop(content, pos, m, s) ==
    LET chunk == read(content, pos, BlockSize)
    IN  IF loop_continues(chunk)
        THEN checksum_loop(content, pos + Len(chunk),
                           md5_update(m, chunk), sha256_update(s, chunk))
        ELSE [md5 |-> hexdigest(m, 2), sha256 |-> hexdigest(s, 3)]

\* calculate_checksums(filepath), on the bytes of the file.
calculate_checksums(content) == checksum_loop(content, 0, md5_new, sha256_new)

\* The same function, one step of the code per action.
SumIdle ==
    /\ cpc = "idle" /\ f_content = <<>> /\ f_pos = 0 /\ md5 = 0 /\ sha256 = 0
    /\ fed = <<>> /\ chunks = <<>> /\ digests = [md5 |-> <<>>, sha256 |-> <<>>]

\* md5 = hashlib.md5(); sha256 = hashlib.sha256(); open(filepath, "rb")
SumOpen ==
    /\ cpc = "start"
    /\ md5' = md5_new
    /\ sha256' = sha256_new
    /\ f_pos' = 0
    /\ cpc' = "loop"
    /\ UNCHANGED <<f_content, fed, chunks, digests>>

\* One evaluation of the while condition, and the body when it holds.
SumRead ==
    /\ cpc = "loop"
    /\ LET chunk == read(f_content, f_pos, BlockSize)
       IN  /\ f_pos' = f_pos + Len(chunk)
           /\ IF loop_continues(chunk)
              THEN /\ md5' = md5_update(md5, chunk)
                   /\ sha256' = sha256_update(sha256, chunk)
                   /\ fed' = fed \o chunk
                   /\ chunks' = Append(chunks, Len(chunk))
                   /\ cpc' = "loop"
              ELSE /\ cpc' = "return"
                   /\ UNCHANGED <<md5, sha256, fed, chunks>>
    /\ UNCHANGED <<f_content, digests>>

\* return {"md5": md5.hexdigest(), "sha256": sha256.hexdigest()}
SumReturn ==
    /\ cpc = "return"
    /\ digests' = [md5 |-> hexdigest(md5, 2), sha256 |-> hexdigest(sha256, 3)]
    /\ cpc' = "done"
    /\ UNCHANGED <<f_content, f_pos, md5, sha256, fed, chunks>>

\* ------------------------------------------------------------- exceptions
\* requests.exceptions.RequestException and its subclasses raised here.
RequestException == {"HTTPError", "ConnectionError"}

\* Response.raise_for_status(): raises HTTPError for a 4xx or 5xx status.
raise_for_status(status) == status >= 400 /\ status < 600

\* What sending a request raises: ConnectionError when no response arrives;
\* otherwise nothing yet (the caller inspects the response).
Arrived(r) == r.kind = "http"

\* A request succeeded: a response arrived and raise_for_status accepts it.
Ok(r) == Arrived(r) /\ ~raise_for_status(r.status)

\* The exception a request followed by r.raise_for_status() ends with.
Raised(r) ==
    IF ~Arrived(r) THEN "ConnectionError"
    ELSE IF raise_for_status(r.status) THEN "HTTPError"
    ELSE "none"

\* One printed line: what it says and the value it shows.
Line(tag, arg) == <<tag, arg>>

\* The process ends: exit status, who ended it, and the lines printed on the way.
Terminate(code, how, out, err) ==
    /\ pc' = "done"
    /\ exitCode' = code
    /\ handled' = how
    /\ stdout' = stdout \o out
    /\ stderr' = stderr \o err

\* The except clause misses RequestException: every exception is uncaught.
main_except_catches_nothing(exc, out) ==
    Terminate(1, "uncaught", out, <<Line("Traceback", exc)>>)

\* An exception leaves main's try block: the except clause catches a
\* RequestException, prints it to sys.stderr and exits 1; any other exception
\* is uncaught, and the interpreter prints the traceback to stderr and exits 1.
main_except(exc, out) ==
    IF exc \in RequestException
    THEN Terminate(1, "top", out, <<Line("Error", exc)>>)
    ELSE Terminate(1, "uncaught", out, <<Line("Traceback", exc)>>)

\* sys.exit(code) where it stands: SystemExit is no RequestException.
sys_exit(code, out) == Terminate(code, "local", out, <<>>)

\* A request is issued and answered by r.
Send(op, k, r) ==
    /\ calls' = Append(calls, [op |-> op, file |-> k, ok |-> Ok(r)])
    /\ lastStatus' = r.status

Send2(op1, k1, r1, op2, k2, r2) ==
    /\ calls' = calls \o <<[op |-> op1, file |-> k1, ok |-> Ok(r1)],
                          [op |-> op2, file |-> k2, ok |-> Ok(r2)]>>
    /\ lastStatus' = r2.status

\* An exception other than by a request's response leaves the current call.
Leave(exc, out) ==
    IF exc = "SystemExit" THEN sys_exit(1, out) ELSE main_except(exc, out)

\* print(f"Response status: ..."); print(f"Response body: ...")
StatusAndBody == <<Line("Response status", "r.status_code"), Line("Response body", "r.text")>>

\* ------------------------------------------------------------------- main
\* parser.parse_args(): files is nargs="+", and title, description and
\* creators are required; argparse rejects the command line with a usage
\* message on stderr and exit status 2.
parse_args ==
    /\ pc = "parse"
    /\ IF files = <<>> \/ ~has_required
       THEN Terminate(2, "argparse", <<>>, <<Line("usage", "error")>>)
       ELSE /\ pc' = "validate"
            /\ UNCHANGED <<stdout, stderr, exitCode, handled>>
    /\ UNCHANGED <<i, files_to_upload, uploader, deposition_id, checksums, calls,
                   lastStatus, svc, result>>

\* The loop accepts every path without looking at the filesystem.
path_rejected_never(path) == FALSE

\* if not path.is_file()
path_rejected(path) == ~is_file(path)

\* One iteration of "for filepath in args.files".
validate_path ==
    /\ pc = "validate"
    /\ i <= Len(files)
    /\ IF path_rejected(files[i])
       THEN /\ sys_exit(1, <<Line("Error: is not a file or doesn't exist", files[i])>>)
            /\ UNCHANGED <<i, files_to_upload>>
       ELSE /\ files_to_upload' = Append(files_to_upload, files[i])
            /\ i' = i + 1
            /\ UNCHANGED <<pc, stdout, stderr, exitCode, handled>>
    /\ UNCHANGED <<uploader, deposition_id, checksums, calls, lastStatus, svc, result>>

\* After the loop: "if not files_to_upload".
check_files ==
    /\ pc = "validate"
    /\ i > Len(files)
    /\ IF files_to_upload = <<>>
       THEN sys_exit(1, <<Line("Error: No valid files to upload", "")>>)
       ELSE /\ pc' = "init"
            /\ UNCHANGED <<stdout, stderr, exitCode, handled>>
    /\ UNCHANGED <<i, files_to_upload, uploader, deposition_id, checksums, calls,
                   lastStatus, svc, result>>

\* token_var = "ZENODO_SANDBOX_TOKEN" if sandbox else "ZENODO_TOKEN"
token_var(sb) == IF sb THEN "ZENODO_SANDBOX_TOKEN" ELSE "ZENODO_TOKEN"

\* self.base
base_url(sb) == IF sb THEN "https://sandbox.zenodo.org" ELSE "https://zenodo.org"

\* self.api = f"{self.base}/api"
api_url(sb) == IF sb THEN "https://sandbox.zenodo.org/api" ELSE "https://zenodo.org/api"

\* The 403 branch prints its guidance and forgets sys.exit(1).
verify_token_no_exit(r) ==
    IF ~Arrived(r) THEN "ConnectionError"
    ELSE IF r.status = 403 THEN "none"
    ELSE IF r.status # 200 /\ raise_for_status(r.status) THEN "HTTPError"
    ELSE "none"

\* The elif branch prints the response and forgets r.raise_for_status().
verify_token_no_raise(r) ==
    IF ~Arrived(r) THEN "ConnectionError"
    ELSE IF r.status = 403 THEN "SystemExit"
    ELSE "none"

\* ZenodoUploader._verify_token, on the response r to its GET: what it ends with.
verify_token(r) ==
    IF ~Arrived(r) THEN "ConnectionError"
    ELSE IF r.status = 403 THEN "SystemExit"
    ELSE IF r.status # 200 /\ raise_for_status(r.status) THEN "HTTPError"
    ELSE "none"

\* What _verify_token prints on the response r.
verify_token_prints(r) ==
    <<Line("Verifying token permissions...", "")>> \o
    (IF ~Arrived(r) THEN <<>>
     ELSE IF r.status = 403
          THEN <<Line("Error: Token doesn't have required permissions!", ""),
                 Line("Go to", base_url(sandbox))>>
     ELSE IF r.status # 200 THEN StatusAndBody
     ELSE <<>>) \o
    (IF verify_token(r) = "none" THEN <<Line("Token verified successfully!", "")>> ELSE <<>>)

\* uploader = ZenodoUploader(sandbox=args.sandbox): __init__ and _verify_token.
ZenodoUploader_init ==
    /\ pc = "init"
    /\ IF env[token_var(sandbox)] = ""
       THEN /\ main_except("ValueError", <<>>)
            /\ UNCHANGED <<uploader, calls, lastStatus>>
       ELSE \E r \in Responses :
              /\ Send("verify", 0, r)
              /\ IF verify_token(r) = "none"
                 THEN /\ uploader' = [token |-> env[token_var(sandbox)],
                                      base |-> base_url(sandbox),
                                      api |-> api_url(sandbox)]
                      /\ pc' = "create"
                      /\ stdout' = stdout \o verify_token_prints(r)
                      /\ UNCHANGED <<stderr, exitCode, handled>>
                 ELSE /\ Leave(verify_token(r), verify_token_prints(r))
                      /\ UNCHANGED uploader
    /\ UNCHANGED <<i, files_to_upload, deposition_id, checksums, svc, result>>

\* create_deposit without its first r.raise_for_status(): only a missing
\* response ends the call before the metadata request.
create_failed_no_raise(r1) == ~Arrived(r1)

\* create_deposit, after its POST: r.raise_for_status() ends the call when
\* the create call failed (no response, or a 4xx/5xx status).
create_failed(r1) == Raised(r1) # "none"

\* deposition_id = uploader.create_deposit(metadata)
create_deposit ==
    /\ pc = "create"
    /\ \E r1 \in Responses :
         LET out1 == <<Line("Creating Zenodo deposit...", ""),
                       Line("Making request to", uploader.api),
                       Line("Headers", uploader.token)>>
                     \o (IF Arrived(r1) /\ r1.status # 200 THEN StatusAndBody ELSE <<>>)
         IN  IF create_failed(r1)
             THEN /\ Send("create", 0, r1)
                  /\ main_except(Raised(r1), out1)
                  /\ UNCHANGED <<svc, deposition_id, i>>
             ELSE \E id \in DepIds, r2 \in Responses :
                    /\ Send2("create", 0, r1, "metadata", 0, r2)
                    /\ svc' = [id |-> IF Ok(r1) THEN id ELSE 0,
                               metadata |-> Ok(r1) /\ Ok(r2),
                               files |-> <<>>, published |-> FALSE]
                    /\ IF Raised(r2) # "none"
                       THEN /\ main_except(Raised(r2), out1)
                            /\ UNCHANGED <<deposition_id, i>>
                       ELSE /\ deposition_id' = id
                            /\ pc' = "upload"
                            /\ i' = 1
                            /\ stdout' = stdout \o out1 \o <<Line("Uploading files...", "")>>
                            /\ UNCHANGED <<stderr, exitCode, handled>>
    /\ UNCHANGED <<files_to_upload, uploader, checksums, result>>

\* The loop uploads without computing the checksums first.
checksums_after_skipped(sums, path) == sums

\* checksums = calculate_checksums(path), printed: the digests shown so far.
checksums_after(sums, path) ==
    Append(sums, [path |-> path, sums |-> calculate_checksums(Content(path))])

\* One iteration of "for path in files_to_upload": the checksums, then
\* uploader.upload_file(deposition_id, path) with its two requests.
upload_one ==
    /\ pc = "upload"
    /\ i <= Len(files_to_upload)
    /\ LET path == files_to_upload[i]
           out == <<Line("Uploading", path), Line("Calculating checksums...", ""),
                    Line("MD5", "checksums['md5']"), Line("SHA256", "checksums['sha256']")>>
       IN  /\ checksums' = checksums_after(checksums, path)
           /\ \E r1 \in Responses :
                IF Raised(r1) # "none"
                THEN /\ Send("bucket", i, r1)
                     /\ main_except(Raised(r1), out)
                     /\ UNCHANGED <<svc, i>>
                ELSE \E r2 \in Responses, stored \in BOOLEAN :
                       /\ Send2("bucket", i, r1, "put", i, r2)
                       /\ svc' = IF Ok(r2) /\ stored
                                 THEN [svc EXCEPT !.files = Append(@, path)]
                                 ELSE svc
                       /\ IF Raised(r2) # "none"
                          THEN /\ main_except(Raised(r2), out)
                               /\ UNCHANGED i
                          ELSE /\ i' = i + 1
                               /\ stdout' = stdout \o out
                               /\ UNCHANGED <<pc, stderr, exitCode, handled>>
    /\ UNCHANGED <<files_to_upload, uploader, deposition_id, result>>

\* The check sees a filled listing whatever the service reports.
no_files_never(listing) == FALSE

\* The check is inverted: it aborts when files are attached.
no_files_inverted(listing) == listing # <<>>

\* if not deposit["files"]
no_files(listing) == listing = <<>>

\* After the loop: re-fetch the deposition and look at its file listing.
verify_uploaded ==
    /\ pc = "upload"
    /\ i > Len(files_to_upload)
    /\ \E r \in Responses :
         /\ Send("refetch", 0, r)
         /\ IF Raised(r) # "none"
            THEN main_except(Raised(r), <<>>)
            ELSE IF no_files(svc.files)
            THEN sys_exit(1, <<Line("Error: No files were uploaded successfully", "")>>)
            ELSE /\ pc' = "publish"
                 /\ UNCHANGED <<stdout, stderr, exitCode, handled>>
    /\ UNCHANGED <<i, files_to_upload, uploader, deposition_id, checksums, svc, result>>

\* The handler swallows the error: main goes on as if publish had returned.
publish_except_swallows(r) == "none"

\* The except clause around uploader.publish, on the response r that made
\* publish raise: it reads e.response.status_code (e.response is None when no
\* response arrived, an AttributeError) and re-raises.
publish_except(r) == IF ~Arrived(r) THEN "AttributeError" ELSE "HTTPError"

\* What that handler prints.
publish_except_prints(r) ==
    IF Arrived(r) /\ r.status = 400
    THEN <<Line("Error: Cannot publish - deposit may be incomplete", ""),
           Line("Response", "e.response.text"),
           Line("Please verify", "")>>
    ELSE <<>>

\* result = uploader.publish(deposition_id), the report, and the end of main.
publish ==
    /\ pc = "publish"
    /\ \E r \in Responses :
         /\ Send("publish", 0, r)
         /\ svc' = IF Ok(r) THEN [svc EXCEPT !.published = TRUE] ELSE svc
         /\ IF Raised(r) # "none" /\ publish_except(r) # "none"
            THEN /\ main_except(publish_except(r),
                                <<Line("Publishing deposit...", "")>> \o publish_except_prints(r))
                 /\ UNCHANGED result
            ELSE /\ result' = IF Ok(r) THEN Record(deposition_id) ELSE NoRecord
                 /\ Terminate(0, "returned",
                              <<Line("Publishing deposit...", ""),
                                Line("Success! Dataset published:", ""),
                                Line("DOI", result'.doi),
                                Line("URL", result'.html)>>, <<>>)
    /\ UNCHANGED <<i, files_to_upload, uploader, deposition_id, checksums>>

\* ---------------------------------------------------------- specifications
Init ==
    /\ files \in BoundSeq(Paths, MaxFiles)
    /\ has_required \in BOOLEAN
    /\ sandbox \in BOOLEAN
    /\ env \in {[v \in TokenVars |-> IF v \in S THEN "token" ELSE ""] : S \in SUBSET TokenVars}
    /\ pc = "parse"
    /\ i = 1
    /\ files_to_upload = <<>>
    /\ uploader = NoUploader
    /\ deposition_id = 0
    /\ checksums = <<>>
    /\ calls = <<>>
    /\ lastStatus = 0
    /\ svc = NoDeposit
    /\ stdout = <<>>
    /\ stderr = <<>>
    /\ exitCode = -1
    /\ handled = "running"
    /\ result = NoRecord
    /\ SumIdle

Next ==
    \/ (parse_args /\ UNCHANGED <<inputs, sumvars>>)
    \/ (validate_path /\ UNCHANGED <<inputs, sumvars>>)
    \/ (check_files /\ UNCHANGED <<inputs, sumvars>>)
    \/ (ZenodoUploader_init /\ UNCHANGED <<inputs, sumvars>>)
    \/ (create_deposit /\ UNCHANGED <<inputs, sumvars>>)
    \/ (upload_one /\ UNCHANGED <<inputs, sumvars>>)
    \/ (verify_uploaded /\ UNCHANGED <<inputs, sumvars>>)
    \/ (publish /\ UNCHANGED <<inputs, sumvars>>)

Spec == Init /\ [][Next]_vars

\* calculate_checksums alone, on every content of at most MaxLen bytes.
InitSum ==
    /\ files = <<>> /\ has_required = FALSE /\ sandbox = FALSE
    /\ env = [v \in TokenVars |-> ""]
    /\ pc = "idle" /\ i = 1 /\ files_to_upload = <<>> /\ uploader = NoUploader
    /\ deposition_id = 0 /\ checksums = <<>> /\ calls = <<>> /\ lastStatus = 0
    /\ svc = NoDeposit /\ stdout = <<>> /\ stderr = <<>> /\ exitCode = -1
    /\ handled = "running" /\ result = NoRecord
    /\ cpc = "start"
    /\ f_content \in BoundSeq(Bytes, MaxLen)
    /\ f_pos = 0 /\ md5 = 0 /\ sha256 = 0 /\ fed = <<>> /\ chunks = <<>>
    /\ digests = [md5 |-> <<>>, sha256 |-> <<>>]

NextSum ==
    \/ (SumOpen /\ UNCHANGED <<inputs, runvars>>)
    \/ (SumRead /\ UNCHANGED <<inputs, runvars>>)
    \/ (SumReturn /\ UNCHANGED <<inputs, runvars>>)

SpecSum == InitSum /\ [][NextSum]_vars

\* ------------------------------------------------------------------ claims
Done == pc = "done"

\* The run has stopped for good: no step of main is left.
Stopped == Done /\ ~ENABLED Next

N == Len(files_to_upload)

\* A 4xx or 5xx status: the response is not a success (requests' Response.ok).
NonSuccess(status) == status >= 400

\* The requests of a complete run over n files, in order.
FullSequence(n) ==
    [k \in 1..(2 * n + 5) |->
        IF k = 1 THEN <<"verify", 0>>
        ELSE IF k = 2 THEN <<"create", 0>>
        ELSE IF k = 3 THEN <<"metadata", 0>>
        ELSE IF k = 2 * n + 4 THEN <<"refetch", 0>>
        ELSE IF k = 2 * n + 5 THEN <<"publish", 0>>
        ELSE IF k % 2 = 0 THEN <<"bucket", (k - 2) \div 2>>
        ELSE <<"put", (k - 3) \div 2>>]

Issued == [k \in 1..Len(calls) |-> <<calls[k].op, calls[k].file>>]

IsWorkflowCall(c) == c[1] \notin {"verify", "bucket"}

\* The calls the workflow is specified by: create, metadata, one upload per
\* file in input order, the verification re-fetch, publish.
WorkflowCalls(paths) ==
    <<<<"create", "">>, <<"metadata", "">>>>
        \o [k \in 1..Len(paths) |-> <<"put", paths[k]>>]
        \o <<<<"refetch", "">>, <<"publish", "">>>>

IssuedWorkflowCalls ==
    LET named == [k \in 1..Len(calls) |->
                    <<calls[k].op,
                      IF calls[k].file = 0 THEN "" ELSE files_to_upload[calls[k].file]>>]
    IN  SelectSeq(named, IsWorkflowCall)

Count(op) == Cardinality({k \in 1..Len(calls) : calls[k].op = op})

ValidInput ==
    /\ files # <<>>
    /\ \A k \in 1..Len(files) : is_file(files[k])
    /\ has_required

\* The service accepted every call made to it, and kept every file it accepted.
AcceptedEveryCall ==
    /\ \A k \in 1..Len(calls) : calls[k].ok
    /\ Len(svc.files) = Count("put")

CredentialSet == env[token_var(sandbox)] # ""

Reported(rec) ==
    /\ \E k \in 1..Len(stdout) : stdout[k] = Line("DOI", rec.doi)
    /\ \E k \in 1..Len(stdout) : stdout[k] = Line("URL", rec.html)

HappyRun ==
    /\ IssuedWorkflowCalls = WorkflowCalls(files)
    /\ svc.id # 0
    /\ svc.published
    /\ Reported(Record(svc.id))
    /\ exitCode = 0

\* C1 as stated: with valid files, complete metadata and a service that accepts
\* every call, the finished run has made exactly the calls create, metadata,
\* one upload per file in input order, re-fetch, publish, reported the
\* service's identifier and URL, and ended with exit code 0.
C1_AsStated == (Done /\ ValidInput /\ AcceptedEveryCall) => HappyRun

\* C1, amended: the same, for a run whose environment sets the token variable
\* the sandbox flag selects.
C1_HappyPath == (Done /\ ValidInput /\ CredentialSet /\ AcceptedEveryCall) => HappyRun

C1_Witness ==
    /\ Done /\ ValidInput /\ CredentialSet /\ AcceptedEveryCall
    /\ Len(files) = 2 /\ files[1] # files[2]
    /\ exitCode = 0

HasBadPath == \E k \in 1..Len(files) : ~is_file(files[k])

\* C2: a run whose command line names a path that is no existing regular file,
\* or whose list of validated files is empty, makes no network call, never
\* constructs the client, and ends with a non-zero exit code; a call is made and
\* the client constructed only once every path has been validated.
C2_NoNetworkOnBadInput ==
    /\ (HasBadPath \/ files = <<>>) =>
          /\ calls = <<>>
          /\ uploader = NoUploader
          /\ pc \in {"parse", "validate", "done"}
          /\ Done \/ ENABLED Next
          /\ Done => exitCode # 0 /\ Stopped
    /\ (calls # <<>> \/ uploader # NoUploader \/ pc \in {"init", "create", "upload", "publish"}) =>
          /\ files_to_upload = files
          /\ files_to_upload # <<>>
          /\ ~HasBadPath

C2_Witness ==
    /\ Done /\ has_required /\ Len(files) = 2
    /\ is_file(files[1]) /\ ~is_file(files[2])
    /\ files_to_upload = <<files[1]>>
    /\ calls = <<>> /\ exitCode = 1

\* C3: when the token-verification call is answered 403, the run ends there
\* with exit code 1: the verification call stays the only call ever made, so
\* no create, metadata, upload, re-fetch or publish call follows.
C3_ForbiddenStops ==
    /\ (Len(calls) = 1 /\ calls[1].op = "verify" /\ lastStatus = 403) =>
          /\ Stopped
          /\ exitCode = 1
          /\ uploader = NoUploader
    /\ (calls # <<>> /\ ~calls[1].ok) => Len(calls) = 1

C3_Witness ==
    /\ Done /\ Len(calls) = 1 /\ calls[1].op = "verify" /\ lastStatus = 403
    /\ exitCode = 1

Last == calls[Len(calls)]

\* C4: when the publish call is answered 400 (deposition incomplete), the run
\* ends there with exit code 1: publish was called once, it is the last request,
\* and the deposition on the service is not published.
C4_PublishRejected ==
    (calls # <<>> /\ Last.op = "publish" /\ lastStatus = 400) =>
        /\ Stopped
        /\ exitCode = 1
        /\ Count("publish") = 1
        /\ ~svc.published
        /\ result = NoRecord

C4_Witness ==
    /\ Done /\ calls # <<>> /\ Last.op = "publish" /\ lastStatus = 400
    /\ exitCode = 1 /\ ~svc.published /\ svc.files # <<>>

Printed(stream, tag) == \E k \in 1..Len(stream) : stream[k][1] = tag

WorkflowCompleted ==
    /\ calls # <<>> /\ Last.op = "publish" /\ Last.ok
    /\ \A k \in 1..Len(calls) : calls[k].ok
    /\ Reported(result)
    /\ result = Record(svc.id)

\* An error of one of the kinds the claim lists ended the run.
MissingCredential == pc = "done" /\ calls = <<>> /\ ValidInput /\ ~CredentialSet
RequestFailed == calls # <<>> /\ ~Last.ok

\* C5 as stated: a run ends either with exit code 0 after the whole workflow
\* completed and the identifier and URL were printed, or with exit code 1, the
\* error having been handled by main's top-level handler with a diagnostic on
\* the error stream.  Command lines that argparse itself rejects (exit code 2)
\* are left aside here: the statement fails on the runs that get past it.
C5_AsStated ==
    (Done /\ handled # "argparse") =>
        \/ exitCode = 0 /\ WorkflowCompleted
        \/ exitCode = 1 /\ handled = "top" /\ stderr # <<>>

\* C5, amended: a run ends with exit code 0 exactly when the whole workflow
\* completed and the identifier and URL were printed; otherwise with exit code
\* 1, or 2 when argparse rejects the command line.  No error is swallowed.
\* Only a failed request is handled by main's top-level handler (message on
\* stderr, exit code 1), except a publish call without a response; a missing
\* file, a 403 at verification and an empty re-fetched listing print to stdout
\* and exit where they are found; a missing credential and a publish call
\* without a response end the run with an uncaught exception (traceback on
\* stderr, exit code 1).
C5_Outcomes ==
    Done =>
        /\ Stopped
        /\ exitCode \in {0, 1, 2}
        /\ handled \in {"returned", "top", "local", "uncaught", "argparse"}
        /\ exitCode = 0 <=> handled = "returned"
        /\ exitCode = 0 <=> WorkflowCompleted
        /\ exitCode = 2 <=> handled = "argparse"
        /\ handled = "argparse" <=> (files = <<>> \/ ~has_required)
        /\ handled = "argparse" => calls = <<>> /\ Printed(stderr, "usage")
        /\ handled = "top" <=>
              (RequestFailed /\ ~(Last.op = "publish" /\ lastStatus = 0)
                             /\ ~(Last.op = "verify" /\ lastStatus = 403))
        /\ handled = "top" => Printed(stderr, "Error")
        /\ handled = "uncaught" <=>
              (MissingCredential \/ (RequestFailed /\ Last.op = "publish" /\ lastStatus = 0))
        /\ handled = "uncaught" => Printed(stderr, "Traceback")
        /\ handled = "local" <=>
              \/ has_required /\ HasBadPath
              \/ RequestFailed /\ Last.op = "verify" /\ lastStatus = 403
              \/ calls # <<>> /\ Last.op = "refetch" /\ Last.ok
        /\ handled = "local" => stdout # <<>> /\ stderr = <<>>
        /\ (RequestFailed \/ HasBadPath \/ ~CredentialSet \/ files = <<>> \/ ~has_required)
              => exitCode # 0

C5_Witness ==
    /\ Done /\ exitCode = 1 /\ handled = "local" /\ stderr = <<>>
    /\ Printed(stdout, "Error: is not a file or doesn't exist")

C7_PublishAfterRefetch ==
    /\ \A k \in 1..Len(calls) :
          calls[k].op = "publish" =>
             /\ k > 1
             /\ calls[k - 1].op = "refetch"
             /\ calls[k - 1].ok
             /\ svc.files # <<>>
             /\ \A j \in 1..N : \E m \in 1..(k - 2) :
                   calls[m].op = "put" /\ calls[m].file = j /\ calls[m].ok
    /\ pc = "publish" => (calls # <<>> /\ Last.op = "refetch" /\ Last.ok /\ svc.files # <<>>)
    /\ (calls # <<>> /\ Last.op = "refetch" /\ Last.ok /\ svc.files = <<>>) =>
          /\ Stopped
          /\ exitCode = 1
          /\ Count("publish") = 0

C7_Witness ==
    /\ Done /\ calls # <<>> /\ Last.op = "refetch" /\ Last.ok /\ svc.files = <<>>
    /\ exitCode = 1 /\ N = 2

\* C8: main holds a deposition id only when the create call and the
\* metadata-attach call both succeeded; after a failed create call no metadata
\* call is made; after a failed metadata call the deposition stays on the
\* service as a draft without metadata or files, no further call of any kind is
\* made, and the run ends with exit code 1.
C8_CreateDeposit ==
    /\ deposition_id # 0 =>
          /\ Len(calls) >= 3
          /\ calls[2].op = "create" /\ calls[2].ok
          /\ calls[3].op = "metadata" /\ calls[3].ok
          /\ deposition_id = svc.id
          /\ svc.metadata
    /\ \A k \in 1..Len(calls) :
          (calls[k].op = "create" /\ ~calls[k].ok) =>
             /\ k = Len(calls)
             /\ Count("metadata") = 0
             /\ svc = NoDeposit
             /\ Stopped /\ exitCode = 1
    /\ \A k \in 1..Len(calls) :
          (calls[k].op = "metadata" /\ ~calls[k].ok) =>
             /\ k = Len(calls)
             /\ svc.id # 0 /\ ~svc.metadata /\ svc.files = <<>> /\ ~svc.published
             /\ deposition_id = 0
             /\ Count("put") = 0 /\ Count("publish") = 0
             /\ Stopped /\ exitCode = 1

C8_Witness ==
    /\ Done /\ Len(calls) = 3 /\ calls[3].op = "metadata" /\ ~calls[3].ok
    /\ svc.id # 0 /\ ~svc.metadata /\ exitCode = 1

\* C9: calculate_checksums feeds both hash states exactly the bytes of the
\* file, in order, in blocks of 1..BlockSize bytes, so the pair it returns is
\* the pair of one-shot digests of the whole content, for every content (empty,
\* shorter than a block, a whole number of blocks, or not), and computing it
\* again gives the same pair.
C9_Checksums ==
    /\ cpc \in {"loop", "return", "done"} =>
          /\ fed = SubSeq(f_content, 1, f_pos)
          /\ md5 = md5_update(md5_new, fed)
          /\ sha256 = sha256_update(sha256_new, fed)
          /\ \A k \in 1..Len(chunks) : chunks[k] >= 1 /\ chunks[k] <= BlockSize
    /\ cpc \in {"return", "done"} => fed = f_content
    /\ cpc = "done" =>
          /\ digests.md5 = hexdigest(md5_update(md5_new, f_content), 2)
          /\ digests.sha256 = hexdigest(sha256_update(sha256_new, f_content), 3)
          /\ digests = calculate_checksums(f_content)

C9_Witness ==
    /\ cpc = "done" /\ Len(f_content) = 2 * BlockSize /\ Len(chunks) = 2
    /\ digests.md5 = hexdigest(md5_update(md5_new, f_content), 2)

\* C10: the requests issued so far are a prefix of verify, create, metadata,
\* then per file in input order (bucket, put), then re-fetch, publish; every
\* request but the last succeeded, and a failed request ends the run with a
\* non-zero exit code; a file's upload is issued only once its checksums were
\* computed.
C10_Sequence ==
    /\ Len(calls) <= 2 * N + 5
    /\ \A k \in 1..Len(calls) : Issued[k] = FullSequence(N)[k]
    /\ \A k \in 1..(Len(calls) - 1) : calls[k].ok
    /\ (calls # <<>> /\ ~Last.ok) => (Stopped /\ exitCode # 0)
    /\ calls # <<>> => files_to_upload = files
    /\ \A k \in 1..Len(calls) :
          calls[k].op = "put" =>
             /\ Len(checksums) >= calls[k].file
             /\ checksums[calls[k].file] =
                   [path |-> files_to_upload[calls[k].file],
                    sums |-> [md5 |-> hexdigest(md5_update(md5_new,
                                                Content(files_to_upload[calls[k].file])), 2),
                              sha256 |-> hexdigest(sha256_update(sha256_new,
                                                Content(files_to_upload[calls[k].file])), 3)]]

C10_Witness ==
    /\ Done /\ N = 2 /\ calls # <<>> /\ Last.op = "put" /\ Last.file = 2 /\ ~Last.ok
    /\ exitCode = 1

====
